---- MODULE Spec2Model ----
(***************************************************************************)
(* The room relay of src/server.js: the Registry (clients), the Room Index *)
(* (rooms), the per-connection handlers (connection, message, pong,        *)
(* close), the heartbeat interval and the room sweep.                      *)
(*                                                                         *)
(* JavaScript values are tagged pairs <<tag, payload>> whose payload is a  *)
(* sequence of integers: a string carries its character codes, a number    *)
(* its value, null and undefined nothing.  A session id is a string.       *)
(* A handler runs to completion (one event-loop turn), so each handler is  *)
(* one action.                                                             *)
(***************************************************************************)
EXTENDS Integers, Sequences, FiniteSets, TLC

(***************************************************************************)
(* Bounds of the model.                                                    *)
(***************************************************************************)
\* Number of connections the server accepts in a run.
NConn == 2
\* Number of connections in the runs with a running clock.
NRate == 1
NLive == 1
\* Number of heartbeat periods the clock may run through.
MaxTicks == 6
\* Number of rate-gate windows the clock may run through.
MaxWindows == 2
\* Number of different values Math.random() may give.
NDraws == 2
\* Number of sweep periods the clock of SpecCleanup runs through.
MaxSweeps == 2

(***************************************************************************)
(* Program constants.                                                      *)
(***************************************************************************)
PING_INTERVAL_MS == 30000
STALE_CLIENT_MS == 120000
CLEANUP_INTERVAL_MS == 60000
MAX_NAME_LEN == 64
MAX_ROOM_LEN == 64
MAX_AVATAR_LEN == 1024
MAX_CHAT_LEN == 500
MIN_CHAT_INTERVAL_MS == 300
MIN_POS_INTERVAL_MS == 30
\* Also the maxPayload of the WebSocket server.
MAX_MESSAGE_SIZE == 64 * 1024

Conns == 1 .. NConn
RateConns == 1 .. (IF NRate < NConn THEN NRate ELSE NConn)
LiveConns == 1 .. (IF NLive < NConn THEN NLive ELSE NConn)

\* Date.now() when the process starts: any instant far above the intervals.
StartTime == 8 * STALE_CLIENT_MS
\* Where the clocks of SpecRate and SpecLive stop.
RateEnd == StartTime + MaxWindows * MIN_CHAT_INTERVAL_MS
LiveEnd == StartTime + MaxTicks * PING_INTERVAL_MS
CleanupEnd == StartTime + MaxSweeps * CLEANUP_INTERVAL_MS

(***************************************************************************)
(* JavaScript values.                                                      *)
(***************************************************************************)
Str(s) == <<"string", s>>
Num(n) == <<"number", <<n>>>>
Null == <<"null", <<>>>>
Undefined == <<"undefined", <<>>>>

IsString(v) == v[1] = "string"
IsNumber(v) == v[1] = "number"

\* JavaScript truthiness, as used by `a || b` and `if (client.room)`.
Truthy(v) ==
    CASE v[1] = "string" -> Len(v[2]) > 0
      [] v[1] = "number" -> v[2][1] # 0
      [] OTHER -> FALSE

JsOr(a, b) == IF Truthy(a) THEN a ELSE b

\* The white space String.prototype.trim strips (character codes).
IsSpace(ch) == ch \in {9, 10, 11, 12, 13, 32}

\* "lobby", "Player-" and '#e74c3c' as character codes.
LOBBY == <<108, 111, 98, 98, 121>>
PLAYER_PREFIX == <<80, 108, 97, 121, 101, 114, 45>>
DEFAULT_COLOR == <<35, 101, 55, 52, 99, 51, 99>>

RECURSIVE TrimLeft(_)
TrimLeft(s) ==
    IF s # <<>> /\ IsSpace(Head(s)) THEN TrimLeft(Tail(s)) ELSE s

RECURSIVE TrimRight(_)
TrimRight(s) ==
    IF s # <<>> /\ IsSpace(s[Len(s)]) THEN TrimRight(SubSeq(s, 1, Len(s) - 1)) ELSE s

\* String.prototype.trim
Trim(s) == TrimRight(TrimLeft(s))

\* s.slice(0, n)
SliceTo(s, n) == SubSeq(s, 1, IF Len(s) < n THEN Len(s) ELSE n)

\* s.slice(-n)
SliceLast(s, n) == IF Len(s) <= n THEN s ELSE SubSeq(s, Len(s) - n + 1, Len(s))

\* safeString(v, fallback, maxLen): fallback is a JavaScript value.
safeString(v, fallback, maxLen) ==
    IF ~IsString(v) THEN fallback
    ELSE LET s == Trim(v[2])
         IN  IF Len(s) = 0 THEN fallback
             ELSE IF Len(s) > maxLen THEN Str(SliceTo(s, maxLen)) ELSE Str(s)

\* One base-36 digit as a character code ('0'..'9', 'a'..'z').
Digit36(d) == IF d < 10 THEN 48 + d ELSE 87 + d

RECURSIVE ToString36(_)
\* Number.prototype.toString(36) of a non-negative integer.
ToString36(n) ==
    IF n < 36 THEN <<Digit36(n)>> ELSE ToString36(n \div 36) \o <<Digit36(n % 36)>>

\* makeId(): Date.now() in base 36 followed by the digits Math.random() gave
\* (rnd is Math.random().toString(36).slice(2, 8), a string of 0..6 digits).
makeId(t, rnd) == ToString36(t) \o rnd

\* 'Player-' + id.slice(-4)
FallbackName(id) == Str(PLAYER_PREFIX \o SliceLast(id, 4))

(***************************************************************************)
(* State.                                                                  *)
(*   clients   the Registry: a function from the registered ids to their   *)
(*             session records (Map clients)                               *)
(*   rooms     the Room Index: a function from the existing room names to  *)
(*             their member sets (Map rooms)                               *)
(*   sock      readyState of each connection's socket ("NONE" before the   *)
(*             connection is accepted)                                     *)
(*   sid       the id each connection's handlers closed over               *)
(*   now       Date.now()                                                  *)
(*   nextPing, nextSweep   when the two intervals fire next                *)
(*   sendFails the sockets whose send() throws (none, but in SpecFail:     *)
(*             send() on an OPEN socket queues the frame)                  *)
(* Observation (history) variables:                                        *)
(*   out       the sends of the last handler, in order                     *)
(*   last      which handler ran last, for which connection                *)
(*   owed      per connection d, the connections that were open members of *)
(*             d's room when d's session left the Registry                 *)
(*   chatAt    per connection, when its last delivered chat was handled    *)
(*             (-1: none yet)                                              *)
(*   noticed   per connection, the number of playerLeft broadcasts issued  *)
(*             with its id                                                 *)
(*   recv      per connection, the type of the first message it received   *)
(*             ("none" before) and the number of id messages it received   *)
(***************************************************************************)
VARIABLES clients, rooms, sock, sid, now, nextPing, nextSweep, sendFails, out, last, owed, chatAt, noticed, recv

vars == <<clients, rooms, sock, sid, now, nextPing, nextSweep, sendFails, out, last, owed, chatAt, noticed, recv>>

(***************************************************************************)
(* Maps.                                                                   *)
(***************************************************************************)
\* Map.prototype.set
MapSet(f, k, v) == [x \in DOMAIN f \cup {k} |-> IF x = k THEN v ELSE f[x]]

\* Map.prototype.delete
MapDelete(f, k) == [x \in DOMAIN f \ {k} |-> f[x]]

MapDeleteAll(f, ks) == [x \in DOMAIN f \ ks |-> f[x]]

\* The empty Map.
EmptyMap == <<>>

(***************************************************************************)
(* Outbound messages.  One entry of `out` is one send, or one broadcast    *)
(* with the set `to` of the connections it was delivered to.               *)
(***************************************************************************)
NoId == <<>>

Payload(type, id, ids, str, name) ==
    [type |-> type, id |-> id, ids |-> ids, str |-> str, name |-> name]

\* room and except are the broadcast's arguments (no room, no id: a direct send).
Sent(payload, to, room, except) ==
    [type |-> payload.type, to |-> to, id |-> payload.id, ids |-> payload.ids,
     str |-> payload.str, name |-> payload.name, room |-> room, except |-> except]

\* ws.send(data) guarded by `ws.readyState === WebSocket.OPEN` and a try/catch:
\* the entry when the socket is open and its send does not throw, else nothing.
GuardedSend(sk, fails, c, payload) ==
    IF sk[c] = "OPEN" /\ c \notin fails THEN <<Sent(payload, {c}, <<>>, NoId)>> ELSE <<>>

\* ws.terminate() and ws.close(): an open socket starts closing; its 'close'
\* event comes later.
Terminate(sk, cs) == [c \in DOMAIN sk |-> IF c \in cs /\ sk[c] = "OPEN" THEN "CLOSING" ELSE sk[c]]

(***************************************************************************)
(* broadcastToRoom(room, payload, exceptId).  The loop runs over a         *)
(* snapshot of the member set and its iterations touch disjoint entries,   *)
(* so it is computed per class of target:                                  *)
(*   absent  not in the Registry: dropped from the set                     *)
(*   dead    socket not OPEN: dropped from the set and the Registry        *)
(*   failed  send throws: socket terminated, dropped from both             *)
(*   the rest receive the payload.                                         *)
(* The result holds the new Registry, Room Index and sockets, and the      *)
(* `sent` entries (none when the room does not exist): the payload with    *)
(* the connections it reached, then the terminations if a send failed.     *)
(***************************************************************************)
\* The ws.terminate() calls of a broadcast, as an entry of `out` (none when no
\* send failed).
Terminated(cl, failed) ==
    IF failed = {} THEN <<>>
    ELSE <<Sent(Payload("terminate", NoId, failed, <<>>, Null),
                {cl[i].ws : i \in failed}, <<>>, NoId)>>

\* broadcastToRoom with the first failing send ending the loop: in the worst
\* order no target receives the payload.
broadcastToRoomAborting(cl, rm, sk, fails, room, payload, exceptId) ==
    IF room \notin DOMAIN rm
    THEN [cl |-> cl, rm |-> rm, sk |-> sk, sent |-> <<>>]
    ELSE LET targets == rm[room] \ {exceptId}
             absent == {i \in targets : i \notin DOMAIN cl}
             known == targets \ absent
             dead == {i \in known : sk[cl[i].ws] # "OPEN"}
             failed == {i \in known \ dead : cl[i].ws \in fails}
             ok == IF failed = {} THEN known \ dead ELSE {}
         IN  [cl |-> MapDeleteAll(cl, dead \cup failed),
              rm |-> [rm EXCEPT ![room] = @ \ (absent \cup dead \cup failed)],
              sk |-> Terminate(sk, {cl[i].ws : i \in failed}),
              sent |-> <<Sent(payload, {cl[i].ws : i \in ok}, room, exceptId)>>
                       \o Terminated(cl, failed)]

broadcastToRoom(cl, rm, sk, fails, room, payload, exceptId) ==
    IF room \notin DOMAIN rm
    THEN [cl |-> cl, rm |-> rm, sk |-> sk, sent |-> <<>>]
    ELSE LET targets == rm[room] \ {exceptId}
             absent == {i \in targets : i \notin DOMAIN cl}
             known == targets \ absent
             dead == {i \in known : sk[cl[i].ws] # "OPEN"}
             failed == {i \in known \ dead : cl[i].ws \in fails}
             ok == (known \ dead) \ failed
         IN  [cl |-> MapDeleteAll(cl, dead \cup failed),
              rm |-> [rm EXCEPT ![room] = @ \ (absent \cup dead \cup failed)],
              sk |-> Terminate(sk, {cl[i].ws : i \in failed}),
              sent |-> <<Sent(payload, {cl[i].ws : i \in ok}, room, exceptId)>>
                       \o Terminated(cl, failed)]

\* sendPlayersListTo building the roster from the members with an open socket only.
sendPlayersListToOpenOnly(cl, rm, sk, fails, c, room) ==
    LET players == IF room \in DOMAIN rm
                   THEN {i \in rm[room] \cap DOMAIN cl : sk[cl[i].ws] = "OPEN"} ELSE {}
    IN  GuardedSend(sk, fails, c, Payload("players", NoId, players, <<>>, Null))

\* A roster that leaves out the session it is sent to.
sendPlayersListToOthers(cl, rm, sk, fails, c, room) ==
    LET players == IF room \in DOMAIN rm
                   THEN {i \in rm[room] \cap DOMAIN cl : cl[i].ws # c} ELSE {}
    IN  GuardedSend(sk, fails, c, Payload("players", NoId, players, <<>>, Null))

\* sendPlayersListTo(ws, room): the roster holds one entry per member of the
\* room's set that is registered.
sendPlayersListTo(cl, rm, sk, fails, c, room) ==
    LET players == IF room \in DOMAIN rm THEN rm[room] \cap DOMAIN cl ELSE {}
    IN  GuardedSend(sk, fails, c, Payload("players", NoId, players, <<>>, Null))

(***************************************************************************)
(* Handlers, as functions from the state they read to the state they       *)
(* leave: [cl, rm, sk, out].                                               *)
(***************************************************************************)
Result(cl, rm, sk, o) == [cl |-> cl, rm |-> rm, sk |-> sk, out |-> o]

\* The session record wss.on('connection') registers.
NewClient(c, t) ==
    [ws |-> c, name |-> Null, avatar |-> Null, room |-> Null,
     x |-> Num(0), y |-> Num(0), size |-> Num(60), color |-> Str(DEFAULT_COLOR),
     lastPong |-> t, lastUpdate |-> t, lastChatAt |-> 0, lastPosAt |-> 0]

\* wss.on('connection'): register under a fresh id and send it.
connectionHandler(cl, rm, sk, fails, c, id, t) ==
    LET sk1 == [sk EXCEPT ![c] = "OPEN"]
    IN  Result(MapSet(cl, id, NewClient(c, t)), rm, sk1,
               IF c \in fails THEN <<>>
               ELSE <<Sent(Payload("id", id, {}, <<>>, Null), {c}, <<>>, NoId)>>)

\* case 'join' sending the joined acknowledgement before the playerJoined broadcast.
joinHandlerAckFirst(cl, rm, sk, fails, c, id, msg, t) ==
    IF id \notin DOMAIN cl THEN Result(cl, rm, sk, <<>>)
    ELSE LET old == cl[id]
             new == [old EXCEPT
                       !.name = safeString(msg.name, FallbackName(id), MAX_NAME_LEN),
                       !.avatar = safeString(msg.avatar, Null, MAX_AVATAR_LEN),
                       !.room = safeString(msg.room, Str(LOBBY), MAX_ROOM_LEN),
                       !.x = IF IsNumber(msg.x) THEN msg.x ELSE @,
                       !.y = IF IsNumber(msg.y) THEN msg.y ELSE @,
                       !.size = IF IsNumber(msg.size) THEN msg.size ELSE @,
                       !.color = IF IsString(msg.color) THEN safeString(msg.color, @, 32) ELSE @,
                       !.lastUpdate = t]
             room == new.room[2]
             cl1 == [cl EXCEPT ![id] = new]
             rm1 == IF room \in DOMAIN rm THEN [rm EXCEPT ![room] = @ \cup {id}]
                    ELSE MapSet(rm, room, {id})
             roster == sendPlayersListTo(cl1, rm1, sk, fails, c, room)
             ack == GuardedSend(sk, fails, c, Payload("joined", NoId, {}, room, Null))
             b == broadcastToRoom(cl1, rm1, sk, fails, room,
                                  Payload("playerJoined", id, {}, <<>>, new.name), id)
         IN  Result(b.cl, b.rm, b.sk, roster \o ack \o b.sent)

\* case 'join' starting the session's rate gates afresh.
joinHandlerResetsGates(cl, rm, sk, fails, c, id, msg, t) ==
    IF id \notin DOMAIN cl THEN Result(cl, rm, sk, <<>>)
    ELSE LET old == cl[id]
             new == [old EXCEPT
                       !.name = safeString(msg.name, FallbackName(id), MAX_NAME_LEN),
                       !.avatar = safeString(msg.avatar, Null, MAX_AVATAR_LEN),
                       !.room = safeString(msg.room, Str(LOBBY), MAX_ROOM_LEN),
                       !.x = IF IsNumber(msg.x) THEN msg.x ELSE @,
                       !.y = IF IsNumber(msg.y) THEN msg.y ELSE @,
                       !.size = IF IsNumber(msg.size) THEN msg.size ELSE @,
                       !.color = IF IsString(msg.color) THEN safeString(msg.color, @, 32) ELSE @,
                       !.lastChatAt = 0,
                       !.lastPosAt = 0,
                       !.lastUpdate = t]
             room == new.room[2]
             cl1 == [cl EXCEPT ![id] = new]
             rm1 == IF room \in DOMAIN rm THEN [rm EXCEPT ![room] = @ \cup {id}]
                    ELSE MapSet(rm, room, {id})
             roster == sendPlayersListTo(cl1, rm1, sk, fails, c, room)
             b == broadcastToRoom(cl1, rm1, sk, fails, room,
                                  Payload("playerJoined", id, {}, <<>>, new.name), id)
             ack == GuardedSend(b.sk, fails, c, Payload("joined", NoId, {}, room, Null))
         IN  Result(b.cl, b.rm, b.sk, roster \o b.sent \o ack)

\* case 'join' registering the session again when the Registry has none.
joinHandlerUpserts(cl, rm, sk, fails, c, id, msg, t) ==
         LET old == IF id \in DOMAIN cl THEN cl[id] ELSE NewClient(c, t)
             new == [old EXCEPT
                       !.name = safeString(msg.name, FallbackName(id), MAX_NAME_LEN),
                       !.avatar = safeString(msg.avatar, Null, MAX_AVATAR_LEN),
                       !.room = safeString(msg.room, Str(LOBBY), MAX_ROOM_LEN),
                       !.x = IF IsNumber(msg.x) THEN msg.x ELSE @,
                       !.y = IF IsNumber(msg.y) THEN msg.y ELSE @,
                       !.size = IF IsNumber(msg.size) THEN msg.size ELSE @,
                       !.color = IF IsString(msg.color) THEN safeString(msg.color, @, 32) ELSE @,
                       !.lastUpdate = t]
             room == new.room[2]
             cl1 == MapSet(cl, id, new)
             rm1 == IF room \in DOMAIN rm THEN [rm EXCEPT ![room] = @ \cup {id}]
                    ELSE MapSet(rm, room, {id})
             roster == sendPlayersListTo(cl1, rm1, sk, fails, c, room)
             b == broadcastToRoom(cl1, rm1, sk, fails, room,
                                  Payload("playerJoined", id, {}, <<>>, new.name), id)
             ack == GuardedSend(b.sk, fails, c, Payload("joined", NoId, {}, room, Null))
         IN  Result(b.cl, b.rm, b.sk, roster \o b.sent \o ack)

\* case 'join'
joinHandler(cl, rm, sk, fails, c, id, msg, t) ==
    IF id \notin DOMAIN cl THEN Result(cl, rm, sk, <<>>)
    ELSE LET old == cl[id]
             new == [old EXCEPT
                       !.name = safeString(msg.name, FallbackName(id), MAX_NAME_LEN),
                       !.avatar = safeString(msg.avatar, Null, MAX_AVATAR_LEN),
                       !.room = safeString(msg.room, Str(LOBBY), MAX_ROOM_LEN),
                       !.x = IF IsNumber(msg.x) THEN msg.x ELSE @,
                       !.y = IF IsNumber(msg.y) THEN msg.y ELSE @,
                       !.size = IF IsNumber(msg.size) THEN msg.size ELSE @,
                       !.color = IF IsString(msg.color) THEN safeString(msg.color, @, 32) ELSE @,
                       !.lastUpdate = t]
             room == new.room[2]
             cl1 == [cl EXCEPT ![id] = new]
             rm1 == IF room \in DOMAIN rm THEN [rm EXCEPT ![room] = @ \cup {id}]
                    ELSE MapSet(rm, room, {id})
             roster == sendPlayersListTo(cl1, rm1, sk, fails, c, room)
             b == broadcastToRoom(cl1, rm1, sk, fails, room,
                                  Payload("playerJoined", id, {}, <<>>, new.name), id)
             ack == GuardedSend(b.sk, fails, c, Payload("joined", NoId, {}, room, Null))
         IN  Result(b.cl, b.rm, b.sk, roster \o b.sent \o ack)

\* case 'pos' storing the avatar before the rate gate.
posHandlerAvatarFirst(cl, rm, sk, fails, c, id, msg, t) ==
    IF id \notin DOMAIN cl THEN Result(cl, rm, sk, <<>>)
    ELSE IF t - cl[id].lastPosAt < MIN_POS_INTERVAL_MS
    THEN Result([cl EXCEPT ![id].avatar = IF IsString(msg.avatar) /\ Len(msg.avatar[2]) > 0
                                          THEN safeString(msg.avatar, @, MAX_AVATAR_LEN) ELSE @],
                rm, sk, <<>>)
    ELSE LET old == cl[id]
             new == [old EXCEPT
                       !.lastPosAt = t,
                       !.x = IF IsNumber(msg.x) THEN msg.x ELSE @,
                       !.y = IF IsNumber(msg.y) THEN msg.y ELSE @,
                       !.size = IF IsNumber(msg.size) THEN msg.size ELSE @,
                       !.color = IF IsString(msg.color) THEN safeString(msg.color, @, 32) ELSE @,
                       !.avatar = IF IsString(msg.avatar) /\ Len(msg.avatar[2]) > 0
                                  THEN safeString(msg.avatar, @, MAX_AVATAR_LEN) ELSE @,
                       !.lastUpdate = t]
             cl1 == [cl EXCEPT ![id] = new]
         IN  IF Truthy(new.room)
             THEN LET b == broadcastToRoom(cl1, rm, sk, fails, new.room[2],
                                           Payload("pos", id, {}, <<>>, new.name), id)
                  IN  Result(b.cl, b.rm, b.sk, b.sent)
             ELSE Result(cl1, rm, sk, <<>>)

\* case 'pos'
posHandler(cl, rm, sk, fails, c, id, msg, t) ==
    IF id \notin DOMAIN cl THEN Result(cl, rm, sk, <<>>)
    ELSE IF t - cl[id].lastPosAt < MIN_POS_INTERVAL_MS THEN Result(cl, rm, sk, <<>>)
    ELSE LET old == cl[id]
             new == [old EXCEPT
                       !.lastPosAt = t,
                       !.x = IF IsNumber(msg.x) THEN msg.x ELSE @,
                       !.y = IF IsNumber(msg.y) THEN msg.y ELSE @,
                       !.size = IF IsNumber(msg.size) THEN msg.size ELSE @,
                       !.color = IF IsString(msg.color) THEN safeString(msg.color, @, 32) ELSE @,
                       !.avatar = IF IsString(msg.avatar) /\ Len(msg.avatar[2]) > 0
                                  THEN safeString(msg.avatar, @, MAX_AVATAR_LEN) ELSE @,
                       !.lastUpdate = t]
             cl1 == [cl EXCEPT ![id] = new]
         IN  IF Truthy(new.room)
             THEN LET b == broadcastToRoom(cl1, rm, sk, fails, new.room[2],
                                           Payload("pos", id, {}, <<>>, new.name), id)
                  IN  Result(b.cl, b.rm, b.sk, b.sent)
             ELSE Result(cl1, rm, sk, <<>>)

\* case 'chat' broadcasting to the room except the sender.
chatHandlerExceptSender(cl, rm, sk, fails, c, id, msg, t) ==
    IF id \notin DOMAIN cl THEN Result(cl, rm, sk, <<>>)
    ELSE IF t - cl[id].lastChatAt < MIN_CHAT_INTERVAL_MS THEN Result(cl, rm, sk, <<>>)
    ELSE LET client == [cl[id] EXCEPT !.lastChatAt = t]
             cl1 == [cl EXCEPT ![id] = client]
             rawText == IF IsString(msg.text) THEN msg.text[2] ELSE <<>>
             text == Trim(rawText)
             safeText == IF Len(text) > MAX_CHAT_LEN THEN SliceTo(text, MAX_CHAT_LEN) ELSE text
             name == safeString(JsOr(msg.name, client.name), FallbackName(id), MAX_NAME_LEN)
             payload == Payload("chat", id, {}, safeText, name)
         IN  IF Len(text) = 0 THEN Result(cl1, rm, sk, <<>>)
             ELSE IF Truthy(client.room)
             THEN LET b == broadcastToRoom(cl1, rm, sk, fails, client.room[2], payload, id)
                  IN  Result(b.cl, b.rm, b.sk, b.sent)
             ELSE Result(cl1, rm, sk, GuardedSend(sk, fails, c, payload))

\* case 'chat' taking the payload's id from the message when it has one.
chatHandlerTrustsId(cl, rm, sk, fails, c, id, msg, t) ==
    IF id \notin DOMAIN cl THEN Result(cl, rm, sk, <<>>)
    ELSE IF t - cl[id].lastChatAt < MIN_CHAT_INTERVAL_MS THEN Result(cl, rm, sk, <<>>)
    ELSE LET client == [cl[id] EXCEPT !.lastChatAt = t]
             cl1 == [cl EXCEPT ![id] = client]
             rawText == IF IsString(msg.text) THEN msg.text[2] ELSE <<>>
             text == Trim(rawText)
             safeText == IF Len(text) > MAX_CHAT_LEN THEN SliceTo(text, MAX_CHAT_LEN) ELSE text
             name == safeString(JsOr(msg.name, client.name), FallbackName(id), MAX_NAME_LEN)
             payload == Payload("chat", IF IsString(msg.id) THEN msg.id[2] ELSE id, {}, safeText, name)
         IN  IF Len(text) = 0 THEN Result(cl1, rm, sk, <<>>)
             ELSE IF Truthy(client.room)
             THEN LET b == broadcastToRoom(cl1, rm, sk, fails, client.room[2], payload, NoId)
                  IN  Result(b.cl, b.rm, b.sk, b.sent)
             ELSE Result(cl1, rm, sk, GuardedSend(sk, fails, c, payload))

\* case 'chat'
chatHandler(cl, rm, sk, fails, c, id, msg, t) ==
    IF id \notin DOMAIN cl THEN Result(cl, rm, sk, <<>>)
    ELSE IF t - cl[id].lastChatAt < MIN_CHAT_INTERVAL_MS THEN Result(cl, rm, sk, <<>>)
    ELSE LET client == [cl[id] EXCEPT !.lastChatAt = t]
             cl1 == [cl EXCEPT ![id] = client]
             rawText == IF IsString(msg.text) THEN msg.text[2] ELSE <<>>
             text == Trim(rawText)
             safeText == IF Len(text) > MAX_CHAT_LEN THEN SliceTo(text, MAX_CHAT_LEN) ELSE text
             name == safeString(JsOr(msg.name, client.name), FallbackName(id), MAX_NAME_LEN)
             payload == Payload("chat", id, {}, safeText, name)
         IN  IF Len(text) = 0 THEN Result(cl1, rm, sk, <<>>)
             ELSE IF Truthy(client.room)
             THEN LET b == broadcastToRoom(cl1, rm, sk, fails, client.room[2], payload, NoId)
                  IN  Result(b.cl, b.rm, b.sk, b.sent)
             ELSE Result(cl1, rm, sk, GuardedSend(sk, fails, c, payload))

\* case 'leave': ws.close()
leaveHandler(cl, rm, sk, c, id) ==
    IF id \notin DOMAIN cl THEN Result(cl, rm, sk, <<>>)
    ELSE Result(cl, rm, Terminate(sk, {c}), <<>>)

\* 'join', 'pos', 'chat', 'leave' as character codes.
TYPE_JOIN == <<106, 111, 105, 110>>
TYPE_POS == <<112, 111, 115>>
TYPE_CHAT == <<99, 104, 97, 116>>
TYPE_LEAVE == <<108, 101, 97, 118, 101>>

\* safeParseJson(raw): what JSON.parse made of the text, null when it threw.
\* A frame's json is "invalid" (not parseable), "null", "number" or "object".
safeParseJson(f) == IF f.json = "invalid" THEN "null" ELSE f.json

\* ws.on('message') up to the switch: text.length within the limit, msg
\* truthy, msg.type a string (a number has no type field).
Validated(f) ==
    /\ f.size <= MAX_MESSAGE_SIZE
    /\ safeParseJson(f) # "null"
    /\ safeParseJson(f) = "object" /\ IsString(f.type)

\* ws.on('message'): validation, then the switch on msg.type.
messageHandler(cl, rm, sk, fails, c, id, f, t) ==
    IF ~Validated(f) THEN Result(cl, rm, sk, <<>>)
    ELSE IF id \notin DOMAIN cl THEN Result(cl, rm, sk, <<>>)
    ELSE CASE f.type = Str(TYPE_JOIN) -> joinHandler(cl, rm, sk, fails, c, id, f.fields, t)
           [] f.type = Str(TYPE_POS) -> posHandler(cl, rm, sk, fails, c, id, f.fields, t)
           [] f.type = Str(TYPE_CHAT) -> chatHandler(cl, rm, sk, fails, c, id, f.fields, t)
           [] f.type = Str(TYPE_LEAVE) -> leaveHandler(cl, rm, sk, c, id)
           [] OTHER -> Result(cl, rm, sk, <<>>)

\* The WebSocket server's receiver, created with maxPayload MAX_MESSAGE_SIZE:
\* a frame above the limit is not delivered as a 'message'; the socket is
\* closed with status 1009 and its 'close' event follows.
receive(cl, rm, sk, fails, c, id, f, t) ==
    IF f.size > MAX_MESSAGE_SIZE THEN Result(cl, rm, Terminate(sk, {c}), <<>>)
    ELSE messageHandler(cl, rm, sk, fails, c, id, f, t)

\* ws.on('close') without the final clients.delete(id).
closeHandlerKeepsClient(cl, rm, sk, fails, id) ==
    IF id \notin DOMAIN cl THEN Result(cl, rm, sk, <<>>)
    ELSE LET room == cl[id].room
         IN  IF Truthy(room) /\ room[2] \in DOMAIN rm
             THEN LET rm1 == [rm EXCEPT ![room[2]] = @ \ {id}]
                      b == broadcastToRoom(cl, rm1, sk, fails, room[2],
                                           Payload("playerLeft", id, {}, <<>>, Null), NoId)
                      rm2 == IF b.rm[room[2]] = {} THEN MapDelete(b.rm, room[2]) ELSE b.rm
                  IN  Result(b.cl, rm2, b.sk, b.sent)
             ELSE Result(cl, rm, sk, <<>>)

\* ws.on('close')
closeHandler(cl, rm, sk, fails, id) ==
    IF id \notin DOMAIN cl THEN Result(cl, rm, sk, <<>>)
    ELSE LET room == cl[id].room
         IN  IF Truthy(room) /\ room[2] \in DOMAIN rm
             THEN LET rm1 == [rm EXCEPT ![room[2]] = @ \ {id}]
                      b == broadcastToRoom(cl, rm1, sk, fails, room[2],
                                           Payload("playerLeft", id, {}, <<>>, Null), NoId)
                      rm2 == IF b.rm[room[2]] = {} THEN MapDelete(b.rm, room[2]) ELSE b.rm
                  IN  Result(MapDelete(b.cl, id), rm2, b.sk, b.sent)
             ELSE Result(MapDelete(cl, id), rm, sk, <<>>)

\* ws.on('pong')
pongHandler(cl, id, t) ==
    IF id \in DOMAIN cl THEN [cl EXCEPT ![id].lastPong = t] ELSE cl

\* Staleness measured from the last activity instead of the last pong.
StaleIdsByActivity(cl, t) == {i \in DOMAIN cl : t - cl[i].lastUpdate > STALE_CLIENT_MS}

\* Staleness reached at the threshold already.
StaleIdsAtThreshold(cl, t) == {i \in DOMAIN cl : t - cl[i].lastPong >= STALE_CLIENT_MS}

\* The sessions the heartbeat interval finds stale at time t.
StaleIds(cl, t) == {i \in DOMAIN cl : t - cl[i].lastPong > STALE_CLIENT_MS}

\* pingInterval: terminate the stale sessions' sockets, ping the others.  A
\* ping reaches the peer only through an open socket.
pingHandler(cl, rm, sk, t) ==
    LET stale == StaleIds(cl, t)
        killed == {cl[i].ws : i \in stale}
        probed == {cl[i].ws : i \in DOMAIN cl \ stale}
    IN  Result(cl, rm, Terminate(sk, killed),
               <<Sent(Payload("terminate", NoId, stale, <<>>, Null), killed, <<>>, NoId),
                 Sent(Payload("ping", NoId, {}, <<>>, Null), {w \in probed : sk[w] = "OPEN"},
                      <<>>, NoId)>>)

\* A sweep that deletes nothing.
sweepHandlerKeepsAll(rm) == rm

\* cleanupInterval
sweepHandler(rm) == [r \in {k \in DOMAIN rm : rm[k] # {}} |-> rm[r]]

(***************************************************************************)
(* Inputs.                                                                 *)
(***************************************************************************)
LODGE == <<108, 111, 100, 103, 101>>

\* What Math.random() gives the k-th connection: pairwise distinct draws.
RandomDigits(k) == <<Digit36(k)>>

\* What Math.random() may give any connection: draws that can repeat.
Draws == {RandomDigits(k) : k \in 1 .. NDraws}

\* The id of the first connection accepted at StartTime, as a client can put it
\* in the id field of a message.
ForgedId == makeId(StartTime, RandomDigits(1))

\* The message m with an id field the client supplied.
Forged(m) == [m EXCEPT !.id = Str(ForgedId)]

JoinMsg(room) ==
    [id |-> Undefined, name |-> Undefined, avatar |-> Undefined, room |-> room,
     x |-> Undefined, y |-> Undefined, size |-> Undefined, color |-> Undefined]

\* join without a room (falls back to "lobby") and join for " lodge" with an
\* id field.
JoinMsgs == {JoinMsg(Undefined), Forged(JoinMsg(Str(<<32>> \o LODGE)))}

PosMsg(x) ==
    [id |-> Undefined, x |-> x, y |-> Undefined, size |-> Undefined,
     color |-> Undefined, avatar |-> Undefined]

\* pos with an id field.
PosMsgs == {Forged(PosMsg(Num(7)))}

\* With it, a pos that moves elsewhere and carries a new avatar ("a").
RatePosMsgs == PosMsgs \cup {[PosMsg(Num(8)) EXCEPT !.avatar = Str(<<97>>)]}

ChatMsg(text) == [id |-> Undefined, text |-> text, name |-> Undefined]

\* chat "hi" with an id field, and with it chat " " (empty once trimmed).
ChatMsgs == {Forged(ChatMsg(Str(<<104, 105>>)))}
RateChatMsgs == ChatMsgs \cup {ChatMsg(Str(<<32>>))}

\* An inbound frame: its size, what JSON.parse makes of it, and for an object
\* its type field and its other fields.
InFrame(size, json, type, fields) ==
    [size |-> size, json |-> json, type |-> type, fields |-> fields]

\* The frames the server is to drop: above the size limit, not parseable,
\* JSON null, not an object, without a type, with a type that is no string,
\* with a type the switch does not know ("ping").
DroppedFrames ==
    {InFrame(MAX_MESSAGE_SIZE + 1, "object", Str(TYPE_CHAT), ChatMsg(Str(<<104, 105>>))),
     InFrame(16, "invalid", Undefined, ChatMsg(Undefined)),
     InFrame(16, "null", Undefined, ChatMsg(Undefined)),
     InFrame(16, "number", Undefined, ChatMsg(Undefined)),
     InFrame(16, "object", Undefined, ChatMsg(Str(<<104, 105>>))),
     InFrame(16, "object", Num(1), ChatMsg(Str(<<104, 105>>))),
     InFrame(16, "object", Str(<<112, 105, 110, 103>>), ChatMsg(Str(<<104, 105>>)))}

\* The clock's steps between events: around the chat gate, and around the
\* heartbeat period.
Periods == {PING_INTERVAL_MS \div 2, PING_INTERVAL_MS}
Steps == {MIN_CHAT_INTERVAL_MS - 100, MIN_CHAT_INTERVAL_MS}

(***************************************************************************)
(* Observation.                                                            *)
(***************************************************************************)
\* The open connections of the sessions other than id that are bound to the
\* room value roomVal and are members of its set.
Remaining(cl, rm, sk, roomVal, id) ==
    IF ~Truthy(roomVal) THEN {}
    ELSE IF roomVal[2] \notin DOMAIN rm THEN {}
    ELSE {cl[j].ws : j \in {i \in DOMAIN cl \cap rm[roomVal[2]] :
                              i # id /\ cl[i].room = roomVal /\ sk[cl[i].ws] = "OPEN"}}

RECURSIVE TypesTo(_, _)
\* The types of the entries of o delivered to connection r, in order.
TypesTo(o, r) ==
    IF o = <<>> THEN <<>>
    ELSE (IF r \in Head(o).to THEN <<Head(o).type>> ELSE <<>>) \o TypesTo(Tail(o), r)

\* The number of entries of o of the given type that carry id.
CountOf(o, type, id) == Cardinality({k \in 1 .. Len(o) : o[k].type = type /\ o[k].id = id})

\* The connections an entry of o of the given type was delivered to.
Delivered(o, type) == UNION {o[k].to : k \in {j \in 1 .. Len(o) : o[j].type = type}}

\* Whether o holds a chat entry.
ChatIssued(o) == \E k \in 1 .. Len(o) : o[k].type = "chat"

Last(op, c) == [op |-> op, c |-> c]

\* A handler's result becomes the next state; the history variables follow.
Commit(res) ==
    /\ clients' = res.cl
    /\ rooms' = res.rm
    /\ sock' = res.sk
    /\ out' = res.out
    /\ noticed' = [d \in Conns |-> noticed[d] + CountOf(res.out, "playerLeft", sid[d])]
    /\ recv' = [r \in Conns |->
                  LET types == TypesTo(res.out, r)
                  IN  [first |-> IF recv[r].first = "none" /\ types # <<>> THEN types[1]
                                 ELSE recv[r].first,
                       ids |-> recv[r].ids + Cardinality({k \in 1 .. Len(types) : types[k] = "id"})]]
    /\ owed' = [d \in Conns |->
                  LET gone == {i \in DOMAIN clients \ DOMAIN res.cl : clients[i].ws = d}
                  IN  IF gone = {} THEN owed[d]
                      ELSE UNION {Remaining(res.cl, res.rm, res.sk, clients[i].room, i) : i \in gone}]

(***************************************************************************)
(* Initial state: the module scope of server.js has run.                   *)
(***************************************************************************)
Init ==
    /\ clients = EmptyMap
    /\ rooms = EmptyMap
    /\ sock = [c \in Conns |-> "NONE"]
    /\ sid = [c \in Conns |-> NoId]
    /\ now = StartTime
    /\ nextPing = StartTime + PING_INTERVAL_MS
    /\ nextSweep = StartTime + CLEANUP_INTERVAL_MS
    /\ sendFails = {}
    /\ out = <<>>
    /\ last = Last("init", 0)
    /\ owed = [c \in Conns |-> {}]
    /\ chatAt = [c \in Conns |-> -1]
    /\ noticed = [c \in Conns |-> 0]
    /\ recv = [c \in Conns |-> [first |-> "none", ids |-> 0]]

(***************************************************************************)
(* Actions.                                                                *)
(***************************************************************************)
\* A socket delivers 'message' and 'pong' events while it is open and, after
\* ws.close(), until the closing handshake ends.
Receiving(c) == sock[c] \in {"OPEN", "CLOSING"}

\* wss 'connection' for the next connection, whose Math.random() gave rnd.
Connect(c, rnd) ==
    /\ sock[c] = "NONE"
    /\ \A k \in 1 .. (c - 1) : sock[k] # "NONE"
    /\ LET id == makeId(now, rnd)
       IN  /\ sid' = [sid EXCEPT ![c] = id]
           /\ Commit(connectionHandler(clients, rooms, sock, sendFails, c, id, now))
    /\ last' = Last("connect", c)
    /\ UNCHANGED <<now, nextPing, nextSweep, sendFails, chatAt>>

Join(c, msg) ==
    /\ Receiving(c)
    /\ Commit(joinHandler(clients, rooms, sock, sendFails, c, sid[c], msg, now))
    /\ last' = Last("join", c)
    /\ UNCHANGED <<sid, now, nextPing, nextSweep, sendFails, chatAt>>

Pos(c, msg) ==
    /\ Receiving(c)
    /\ Commit(posHandler(clients, rooms, sock, sendFails, c, sid[c], msg, now))
    /\ last' = Last("pos", c)
    /\ UNCHANGED <<sid, now, nextPing, nextSweep, sendFails, chatAt>>

Chat(c, msg) ==
    /\ Receiving(c)
    /\ LET res == chatHandler(clients, rooms, sock, sendFails, c, sid[c], msg, now)
       IN  /\ Commit(res)
           /\ chatAt' = [chatAt EXCEPT ![c] = IF ChatIssued(res.out) THEN now ELSE @]
    /\ last' = Last("chat", c)
    /\ UNCHANGED <<sid, now, nextPing, nextSweep, sendFails>>

Leave(c) ==
    /\ Receiving(c)
    /\ Commit(leaveHandler(clients, rooms, sock, c, sid[c]))
    /\ last' = Last("leave", c)
    /\ UNCHANGED <<sid, now, nextPing, nextSweep, sendFails, chatAt>>

\* A frame arrives that the server is to drop.
Frame(c, f) ==
    /\ Receiving(c)
    /\ Commit(receive(clients, rooms, sock, sendFails, c, sid[c], f, now))
    /\ last' = Last("frame", c)
    /\ UNCHANGED <<sid, now, nextPing, nextSweep, sendFails, chatAt>>

\* From now on send() throws on the connection's socket.
Break(c) ==
    /\ sock[c] = "OPEN"
    /\ c \notin sendFails
    /\ sendFails' = sendFails \cup {c}
    /\ out' = <<>>
    /\ last' = Last("break", c)
    /\ UNCHANGED <<clients, rooms, sock, sid, now, nextPing, nextSweep, owed, chatAt, noticed, recv>>

\* The peer or the network ends the connection: the socket is no longer OPEN,
\* its 'close' event is still to come.
Disconnect(c) ==
    /\ sock[c] = "OPEN"
    /\ sock' = [sock EXCEPT ![c] = "CLOSING"]
    /\ out' = <<>>
    /\ last' = Last("disconnect", c)
    /\ UNCHANGED <<clients, rooms, sid, now, nextPing, nextSweep, sendFails, owed, chatAt, noticed, recv>>

\* The 'close' event of a closing socket.
Close(c) ==
    /\ sock[c] = "CLOSING"
    /\ Commit(closeHandler(clients, rooms, [sock EXCEPT ![c] = "CLOSED"], sendFails, sid[c]))
    /\ last' = Last("close", c)
    /\ UNCHANGED <<sid, now, nextPing, nextSweep, sendFails, chatAt>>

\* The close handler entered again for a socket whose close was handled.
CloseAgain(c) ==
    /\ sock[c] = "CLOSED"
    /\ Commit(closeHandler(clients, rooms, sock, sendFails, sid[c]))
    /\ last' = Last("closeAgain", c)
    /\ UNCHANGED <<sid, now, nextPing, nextSweep, sendFails, chatAt>>

Pong(c) ==
    /\ Receiving(c)
    /\ clients' = pongHandler(clients, sid[c], now)
    /\ out' = <<>>
    /\ last' = Last("pong", c)
    /\ UNCHANGED <<rooms, sock, sid, now, nextPing, nextSweep, sendFails, owed, chatAt, noticed, recv>>

\* The heartbeat interval fires when it is due.
Ping ==
    /\ now = nextPing
    /\ Commit(pingHandler(clients, rooms, sock, now))
    /\ nextPing' = nextPing + PING_INTERVAL_MS
    /\ last' = Last("ping", 0)
    /\ UNCHANGED <<sid, now, nextSweep, sendFails, chatAt>>

\* The cleanup interval fires when it is due.
Sweep ==
    /\ now = nextSweep
    /\ rooms' = sweepHandler(rooms)
    /\ nextSweep' = nextSweep + CLEANUP_INTERVAL_MS
    /\ out' = <<>>
    /\ last' = Last("sweep", 0)
    /\ UNCHANGED <<clients, sock, sid, now, nextPing, sendFails, owed, chatAt, noticed, recv>>

NextTimer == IF nextPing < nextSweep THEN nextPing ELSE nextSweep

\* Time passes, never beyond an interval that is due.
Advance(d) ==
    /\ now + d <= NextTimer
    /\ now' = now + d
    /\ out' = <<>>
    /\ last' = Last("advance", 0)
    /\ UNCHANGED <<clients, rooms, sock, sid, nextPing, nextSweep, sendFails, owed, chatAt, noticed, recv>>

\* A short while passes (the rate gates' scale).
Elapse(d) == now + d <= RateEnd /\ Advance(d)

\* Half a heartbeat period or a whole one passes (the heartbeat's scale).
Wait(d) == now + d <= LiveEnd /\ Advance(d)

\* A heartbeat period passes (the sweep's scale).
Pass == now + PING_INTERVAL_MS <= CleanupEnd /\ Advance(PING_INTERVAL_MS)

(***************************************************************************)
(* Spec: the connections' events at one instant (rooms, broadcasts,        *)
(* departures).                                                            *)
(***************************************************************************)
Next ==
    \/ \E c \in Conns : Connect(c, RandomDigits(c))
    \/ \E c \in Conns, m \in JoinMsgs : Join(c, m)
    \/ \E c \in Conns, m \in PosMsgs : Pos(c, m)
    \/ \E c \in Conns, m \in ChatMsgs : Chat(c, m)
    \/ \E c \in Conns : Leave(c)
    \/ \E c \in Conns : Disconnect(c)
    \/ \E c \in Conns : Close(c)
    \/ \E c \in Conns : CloseAgain(c)

Spec == Init /\ [][Next]_vars

(***************************************************************************)
(* SpecRate: messages of NRate connections while the clock runs in steps   *)
(* of the rate gates' scale.                                               *)
(***************************************************************************)
NextRate ==
    \/ \E c \in RateConns : Connect(c, RandomDigits(c))
    \/ \E c \in RateConns, m \in JoinMsgs : Join(c, m)
    \/ \E c \in RateConns, m \in RatePosMsgs : Pos(c, m)
    \/ \E c \in RateConns, m \in RateChatMsgs : Chat(c, m)
    \/ \E c \in RateConns : Pong(c)
    \/ \E d \in Steps : Elapse(d)

SpecRate == Init /\ [][NextRate]_vars

(***************************************************************************)
(* SpecLive: the heartbeat and the sweep, with the clock running in steps  *)
(* of the heartbeat's scale and every interval firing when it is due.      *)
(***************************************************************************)
NextLive ==
    \/ \E c \in LiveConns : Connect(c, RandomDigits(c))
    \/ \E c \in LiveConns, m \in JoinMsgs : Join(c, m)
    \/ \E c \in LiveConns : Pong(c)
    \/ \E c \in LiveConns : Disconnect(c)
    \/ \E c \in LiveConns : Close(c)
    \/ Ping
    \/ Sweep
    \/ \E d \in Periods : Wait(d)

SpecLive == Init /\ [][NextLive]_vars

(***************************************************************************)
(* SpecId: connections accepted while the clock runs, Math.random() free   *)
(* to repeat a value.                                                      *)
(***************************************************************************)
NextId ==
    \/ \E c \in Conns, rnd \in Draws : Connect(c, rnd)
    \/ \E c \in Conns, m \in JoinMsgs : Join(c, m)
    \/ \E c \in Conns : Disconnect(c)
    \/ \E c \in Conns : Close(c)
    \/ \E d \in Steps : Elapse(d)

SpecId == Init /\ [][NextId]_vars

(***************************************************************************)
(* SpecDrop: connects, joins, chats and the frames the server is to drop;  *)
(* no peer closes its connection and none asks to leave.                   *)
(***************************************************************************)
NextDrop ==
    \/ \E c \in Conns : Connect(c, RandomDigits(c))
    \/ \E c \in Conns, m \in JoinMsgs : Join(c, m)
    \/ \E c \in Conns, m \in ChatMsgs : Chat(c, m)
    \/ \E c \in Conns, f \in DroppedFrames : Frame(c, f)
    \/ \E c \in Conns : Close(c)

SpecDrop == Init /\ [][NextDrop]_vars

(***************************************************************************)
(* SpecFail: as Spec, with sockets whose send() starts to throw.           *)
(***************************************************************************)
NextFail ==
    \/ \E c \in Conns : Connect(c, RandomDigits(c))
    \/ \E c \in Conns, m \in JoinMsgs : Join(c, m)
    \/ \E c \in Conns, m \in PosMsgs : Pos(c, m)
    \/ \E c \in Conns, m \in ChatMsgs : Chat(c, m)
    \/ \E c \in Conns : Break(c)
    \/ \E c \in Conns : Disconnect(c)
    \/ \E c \in Conns : Close(c)

SpecFail == Init /\ [][NextFail]_vars

(***************************************************************************)
(* SpecCleanup: the sweep among sessions that chat and leave, the clock    *)
(* passing and both intervals firing whenever they are due (setInterval).  *)
(***************************************************************************)
NextCleanup ==
    \/ \E c \in LiveConns : Connect(c, RandomDigits(c))
    \/ \E c \in LiveConns, m \in JoinMsgs : Join(c, m)
    \/ \E c \in LiveConns, m \in ChatMsgs : Chat(c, m)
    \/ \E c \in LiveConns : Leave(c)
    \/ \E c \in LiveConns : Close(c)
    \/ Ping
    \/ Sweep
    \/ Pass

SpecCleanup ==
    /\ Init
    /\ [][NextCleanup]_vars
    /\ WF_vars(Ping)
    /\ WF_vars(Sweep)
    /\ WF_vars(Pass)

(***************************************************************************)
(* Properties.                                                             *)
(***************************************************************************)
\* Whether connection c's session is in the Registry.
Registered(c) == sid[c] \in DOMAIN clients

\* The member set of a room (empty when the room does not exist).
Members(rm, room) == IF room \in DOMAIN rm THEN rm[room] ELSE {}

\* The open connections of the registered members of a room.
OpenMembers(cl, rm, sk, room) ==
    {cl[i].ws : i \in {j \in Members(rm, room) \cap DOMAIN cl : sk[cl[j].ws] = "OPEN"}}

\* C1 Membership consistency: for every registered session and every room
\* name R, the session's id is in rooms[R] iff the session's room field is R.
C1_MembershipConsistency ==
    \A i \in DOMAIN clients : \A R \in DOMAIN rooms \cup {LOBBY, LODGE} :
        (i \in Members(rooms, R)) <=> (clients[i].room = Str(R))

\* C2 At-most-one-room: a join by a session that is a member of room A, for a
\* different room B, leaves its id out of A's member set and in B's.
C2_AtMostOneRoom ==
    [][last'.op = "join" /\ Registered(last'.c) =>
          LET id == sid[last'.c]
              A == clients[id].room
              B == clients'[id].room
          IN  (Truthy(A) /\ id \in Members(rooms, A[2]) /\ B # A) =>
                  (id \notin Members(rooms', A[2]) /\ id \in Members(rooms', B[2]))]_vars

\* C3 Exactly-one departure notice: when the close event of a departed session
\* has been handled, every connection that was an open member of its room when
\* the session left the Registry has received exactly one playerLeft with its id
\* (playerLeft is only ever sent by the close handler).
C3_ExactlyOneDepartureNotice ==
    last.op = "close" =>
        \A r \in owed[last.c] :
            Cardinality({k \in 1 .. Len(out) :
                           /\ out[k].type = "playerLeft"
                           /\ out[k].id = sid[last.c]
                           /\ r \in out[k].to}) = 1

Broadcasts == {k \in 1 .. Len(out) : out[k].room # <<>>}

\* C5 Broadcast exclusion: a broadcast to a room except X is delivered to
\* exactly the registered open members of the room's set other than X, never to
\* X, and never to a session whose room field is another room.
C5_BroadcastExclusion ==
    \A k \in Broadcasts :
        LET e == out[k]
        IN  /\ e.to = OpenMembers(clients, rooms, sock, e.room)
                        \ {c \in Conns : sid[c] = e.except}
            /\ \A c \in e.to : sid[c] # e.except
            /\ \A c \in e.to : Registered(c) /\ clients[sid[c]].room = Str(e.room)

\* Whether chat message m of connection c passes the gate with text to send.
ChatAccepted(c, m) ==
    /\ Registered(c)
    /\ now - clients[sid[c]].lastChatAt >= MIN_CHAT_INTERVAL_MS
    /\ IsString(m.text) /\ Trim(m.text[2]) # <<>>

\* C6 Chat rate limiting: with the session's last delivered chat at time T, a
\* chat before T+300 is dropped and a chat with non-empty trimmed text at T+300
\* or later is delivered, whatever the session sent in between.
C6_ChatRateLimit ==
    [][\A c \in Conns, m \in RateChatMsgs :
          (Chat(c, m) /\ Registered(c) /\ chatAt[c] >= 0) =>
              /\ now < chatAt[c] + MIN_CHAT_INTERVAL_MS => ~ChatIssued(out')
              /\ (/\ now >= chatAt[c] + MIN_CHAT_INTERVAL_MS
                  /\ IsString(m.text) /\ Trim(m.text[2]) # <<>>
                  /\ sock[c] = "OPEN") =>
                     c \in Delivered(out', "chat")]_vars

\* C7 Stale eviction bound: with the heartbeat firing every period, no
\* registered session keeps an open connection for longer than the stale
\* threshold plus one period after its last pong.
C7_StaleEvictionBound ==
    \A i \in DOMAIN clients :
        sock[clients[i].ws] = "OPEN" =>
            now - clients[i].lastPong <= STALE_CLIENT_MS + PING_INTERVAL_MS

\* The heartbeat terminates a session exactly at the bound.
C7_Witness ==
    /\ last.op = "ping"
    /\ \E i \in DOMAIN clients :
          /\ clients[i].ws \in out[1].to
          /\ sock[clients[i].ws] = "CLOSING"
          /\ now - clients[i].lastPong = STALE_CLIENT_MS + PING_INTERVAL_MS

\* C8 Join message order: a connection's first message is its one id message;
\* a processed join sends the joiner the roster, then issues the playerJoined
\* broadcast, then sends the joiner the joined acknowledgement.
C8_JoinMessageOrder ==
    /\ \A c \in Conns :
          IF sock[c] = "NONE" THEN recv[c] = [first |-> "none", ids |-> 0]
          ELSE recv[c] = [first |-> "id", ids |-> 1]
    /\ last.op = "connect" =>
          /\ Len(out) = 1
          /\ out[1].type = "id" /\ out[1].id = sid[last.c] /\ out[1].to = {last.c}
    /\ (last.op = "join" /\ Registered(last.c) /\ sock[last.c] = "OPEN") =>
          /\ Len(out) = 3
          /\ out[1].type = "players" /\ out[1].to = {last.c}
          /\ out[2].type = "playerJoined" /\ out[2].id = sid[last.c]
          /\ out[3].type = "joined" /\ out[3].to = {last.c}
          /\ Str(out[3].str) = clients[sid[last.c]].room

\* A join whose broadcast reached a peer.
C8_Witness ==
    /\ last.op = "join"
    /\ Len(out) = 3
    /\ out[2].to # {}

\* C9 Mutual visibility on join: when a session joins room R, every other
\* registered member of R with an open connection receives exactly one
\* playerJoined with the joiner's id, and the roster sent to the joiner has an
\* entry for every other registered member of R.
C9_MutualVisibility ==
    \A B \in Conns, m \in JoinMsgs :
        (Receiving(B) /\ Registered(B)) =>
            LET id == sid[B]
                res == joinHandler(clients, rooms, sock, sendFails, B, id, m, now)
                R == res.cl[id].room[2]
                others == (Members(rooms, R) \cap DOMAIN clients) \ {id}
            IN  /\ CountOf(res.out, "playerJoined", id) = 1
                /\ \A i \in others :
                      sock[clients[i].ws] = "OPEN" =>
                          clients[i].ws \in Delivered(res.out, "playerJoined")
                /\ B \notin Delivered(res.out, "playerJoined")
                /\ sock[B] = "OPEN" =>
                      /\ B \in Delivered(res.out, "players")
                      /\ \A k \in 1 .. Len(res.out) :
                            res.out[k].type = "players" => others \subseteq res.out[k].ids

\* B joined a room after another one; the peer there got playerJoined and is on
\* B's roster.
C9_Witness ==
    /\ last.op = "join"
    /\ Len(out) = 3
    /\ out[2].to # {}
    /\ Cardinality(out[1].ids) >= 2
    /\ \E R \in DOMAIN rooms :
          /\ Str(R) # clients[sid[last.c]].room
          /\ sid[last.c] \in rooms[R]

\* C10 Chat recipients: an accepted chat of a session bound to room R goes to
\* the open registered members of R's set, the sender among them, and to nobody
\* else; an accepted chat of a session without a room goes to the sender only.
C10_ChatRecipients ==
    \A c \in Conns, m \in RateChatMsgs :
        (Receiving(c) /\ ChatAccepted(c, m)) =>
            LET room == clients[sid[c]].room
                res == chatHandler(clients, rooms, sock, sendFails, c, sid[c], m, now)
            IN  /\ Len(res.out) <= 1
                /\ \A k \in 1 .. Len(res.out) :
                      res.out[k].type = "chat" /\ res.out[k].id = sid[c]
                /\ Delivered(res.out, "chat") =
                      IF Truthy(room) THEN OpenMembers(clients, rooms, sock, room[2])
                      ELSE IF sock[c] = "OPEN" THEN {c} ELSE {}
                /\ sock[c] = "OPEN" => c \in Delivered(res.out, "chat")

\* A chat in a room reached the sender and a peer.
C10_Witness ==
    /\ last.op = "chat"
    /\ Len(out) = 1
    /\ out[1].room # <<>>
    /\ last.c \in out[1].to
    /\ Cardinality(out[1].to) >= 2

\* C11 ID uniqueness: the connections accepted so far have pairwise distinct
\* ids, so no registration overwrites the entry of a registered session.
C11_IdUniqueness ==
    \A c, d \in Conns :
        (c # d /\ sock[c] # "NONE" /\ sock[d] # "NONE") => sid[c] # sid[d]

\* C12 Server-assigned identity: the id in every playerJoined, pos, chat and
\* playerLeft sent is the id the server gave the connection whose handler sent
\* it, whatever id field the inbound message carried.
C12_ServerAssignedIdentity ==
    \A k \in 1 .. Len(out) :
        out[k].type \in {"playerJoined", "pos", "chat", "playerLeft"} =>
            last.c \in Conns /\ out[k].id = sid[last.c]

\* A chat that carried another registered session's id reached a peer.
C12_Witness ==
    /\ last.op = "chat"
    /\ Len(out) = 1
    /\ Cardinality(out[1].to) >= 2
    /\ sid[last.c] # ForgedId
    /\ ForgedId \in DOMAIN clients

\* C13 No empty room survives its operation: between handlers the Room Index
\* holds no room whose member set is empty.
C13_NoEmptyRoom ==
    \A R \in DOMAIN rooms : rooms[R] # {}

\* C14 Silent drop: a frame that is oversized, not parseable, without a string
\* type or of an unknown type sends nothing and changes neither the Registry
\* nor the Room Index.  In runs made of connects, joins, chats and such frames
\* alone, every accepted connection therefore stays registered and open, and no
\* playerLeft is ever sent.
C14_SilentDrop ==
    /\ last.op = "frame" => out = <<>>
    /\ \A c \in Conns :
          sock[c] # "NONE" => (Registered(c) /\ sock[c] = "OPEN" /\ noticed[c] = 0)

\* C15 Heartbeat monotonicity: across every event, lastPong, lastChatAt,
\* lastPosAt and lastUpdate of a session that stays registered do not decrease,
\* and a heartbeat tick at any instant leaves every session record as it is.
C15_HeartbeatMonotonicity ==
    [][/\ pingHandler(clients, rooms, sock, now).cl = clients
       /\ \A i \in DOMAIN clients \cap DOMAIN clients' :
          /\ clients'[i].lastPong >= clients[i].lastPong
          /\ clients'[i].lastChatAt >= clients[i].lastChatAt
          /\ clients'[i].lastPosAt >= clients[i].lastPosAt
          /\ clients'[i].lastUpdate >= clients[i].lastUpdate]_vars

\* A pong after the clock moved, for a session whose chat and pos stamps moved
\* too.
C15_Witness ==
    /\ last.op = "pong"
    /\ Registered(last.c)
    /\ clients[sid[last.c]].lastPong > StartTime
    /\ clients[sid[last.c]].lastChatAt > StartTime
    /\ clients[sid[last.c]].lastPosAt > StartTime
    /\ clients[sid[last.c]].lastUpdate > StartTime

\* C16 Dead-socket reconciliation equals a normal close: when a handler's
\* broadcast removes a session whose connection is not open, then at the end of
\* the handler the session's id is in no room's member set and its room, if it
\* still exists, has a member.
C16_ReconciliationEqualsClose ==
    [][\A i \in DOMAIN clients \ DOMAIN clients' :
          ~(last'.op \in {"close", "closeAgain"} /\ i = sid[last'.c]) =>
              /\ \A R \in DOMAIN rooms' : i \notin rooms'[R]
              /\ (Truthy(clients[i].room) /\ clients[i].room[2] \in DOMAIN rooms') =>
                    rooms'[clients[i].room[2]] # {}]_vars

\* C17 Partial send failure does not abort fan-out: a broadcast to any room,
\* with or without an excluded id, issues the payload once, and it reaches
\* every member of the snapshot other than the excluded id that is registered
\* with an open connection whose send succeeds, whatever members are absent,
\* not open or failing.
C17_FanOutSurvivesFailure ==
    \A R \in DOMAIN rooms, X \in DOMAIN clients \cup {NoId} :
        LET b == broadcastToRoom(clients, rooms, sock, sendFails, R,
                                 Payload("chat", NoId, {}, <<>>, Null), X)
            good == {i \in (rooms[R] \cap DOMAIN clients) \ {X} :
                       sock[clients[i].ws] = "OPEN" /\ clients[i].ws \notin sendFails}
        IN  /\ CountOf(b.sent, "chat", NoId) = 1
            /\ Delivered(b.sent, "chat") = {clients[i].ws : i \in good}

\* A chat whose send to one member failed (its socket was terminated) and
\* which still reached the sender.
C17_Witness ==
    /\ last.op = "chat"
    /\ last.c \in Delivered(out, "chat")
    /\ Delivered(out, "terminate") # {}

\* C18 No early reclamation: at a heartbeat tick, a session whose last pong is
\* at most the stale threshold old is not terminated, however many probes it
\* left unanswered; if its connection is open it is sent a probe.
C18_NoEarlyReclamation ==
    last.op = "ping" =>
        \A i \in DOMAIN clients :
            now - clients[i].lastPong <= STALE_CLIENT_MS =>
                /\ i \notin out[1].ids
                /\ clients[i].ws \notin out[1].to
                /\ sock[clients[i].ws] = "OPEN" => clients[i].ws \in out[2].to

\* A tick exactly at the threshold, four probes unanswered: the session is
\* probed again.
C18_Witness ==
    /\ last.op = "ping"
    /\ \E i \in DOMAIN clients :
          /\ now - clients[i].lastPong = STALE_CLIENT_MS
          /\ clients[i].ws \in out[2].to

\* C19 All-or-nothing position gate: a pos handled less than 30 ms after the
\* session's last accepted pos changes no field of the session, nothing else
\* in the Registry or the Room Index, and sends nothing, even when it carries a
\* new avatar.
C19_AllOrNothingPosGate ==
    \A c \in Conns, m \in RatePosMsgs :
        (/\ Receiving(c) /\ Registered(c)
         /\ now - clients[sid[c]].lastPosAt < MIN_POS_INTERVAL_MS) =>
            posHandler(clients, rooms, sock, sendFails, c, sid[c], m, now)
                = Result(clients, rooms, sock, <<>>)

\* A pos of a session in a room that the gate dropped: nothing was broadcast
\* and the session keeps the position of its accepted pos and no avatar.
C19_Witness ==
    /\ last.op = "pos"
    /\ Registered(last.c)
    /\ Truthy(clients[sid[last.c]].room)
    /\ out = <<>>
    /\ clients[sid[last.c]].x = Num(7)
    /\ clients[sid[last.c]].avatar = Null
    /\ clients[sid[last.c]].lastPosAt = now

\* C20 Position update without a room is ignored: a pos of a session that never
\* joined sends nothing and leaves the Room Index as it is, and the session
\* keeps the position and display attributes it was registered with.
C20_PosWithoutRoomIgnored ==
    /\ \A c \in Conns, m \in PosMsgs :
          (Receiving(c) /\ Registered(c) /\ clients[sid[c]].room = Null) =>
              LET res == posHandler(clients, rooms, sock, sendFails, c, sid[c], m, now)
              IN  res.out = <<>> /\ res.rm = rooms
    /\ \A i \in DOMAIN clients :
          clients[i].room = Null =>
              /\ clients[i].x = Num(0) /\ clients[i].y = Num(0)
              /\ clients[i].size = Num(60)
              /\ clients[i].color = Str(DEFAULT_COLOR)
              /\ clients[i].avatar = Null

\* C21 Closed is terminal: for a connection whose session has left the
\* Registry, every later message (join, pos, chat, leave, a frame to drop), a
\* pong and a close event leave the Registry, the Room Index and the sockets as
\* they are and send nothing, and a heartbeat tick neither terminates nor
\* probes the connection.
C21_ClosedIsTerminal ==
    \A c \in Conns :
        (sock[c] # "NONE" /\ ~Registered(c)) =>
            LET id == sid[c]
                same == Result(clients, rooms, sock, <<>>)
                tick == pingHandler(clients, rooms, sock, now)
            IN  /\ \A m \in JoinMsgs :
                      joinHandler(clients, rooms, sock, sendFails, c, id, m, now) = same
                /\ \A m \in RatePosMsgs :
                      posHandler(clients, rooms, sock, sendFails, c, id, m, now) = same
                /\ \A m \in RateChatMsgs :
                      chatHandler(clients, rooms, sock, sendFails, c, id, m, now) = same
                /\ leaveHandler(clients, rooms, sock, c, id) = same
                /\ \A f \in DroppedFrames :
                      receive(clients, rooms, sock, sendFails, c, id, f, now) = same
                /\ pongHandler(clients, id, now) = clients
                /\ closeHandler(clients, rooms, sock, sendFails, id) = same
                /\ c \notin tick.out[1].to \cup tick.out[2].to
                /\ (last.c = c /\ last.op \in {"join", "pos", "leave", "closeAgain"}) =>
                      out = <<>>

\* A chat handled for a connection whose session a peer's broadcast had
\* removed: nothing was sent.
C21_Witness ==
    /\ last.op = "chat"
    /\ sock[last.c] = "CLOSING"
    /\ ~Registered(last.c)
    /\ out = <<>>

\* A room that exists with no member.
EmptyRoom(R) == R \in DOMAIN rooms /\ rooms[R] = {}

\* C22 (Sweep effect): a sweep tick deletes exactly the rooms whose member
\* set is empty, leaves every other room's member set and the whole Registry
\* as they were, and sends nothing; and with the intervals firing when due, a
\* room that is empty does not stay so: the sweep deletes it (unless a join
\* makes it non-empty first).  The clock of the model stops at CleanupEnd, so
\* the second part speaks of the rooms that are empty while a sweep is still
\* to come.
C22_SweepEffect ==
    /\ [][(last'.op = "sweep" /\ nextSweep' # nextSweep) =>
            /\ DOMAIN rooms' = {R \in DOMAIN rooms : rooms[R] # {}}
            /\ \A R \in DOMAIN rooms' : rooms'[R] = rooms[R]
            /\ clients' = clients
            /\ sock' = sock
            /\ out' = <<>>]_vars
    /\ \A R \in {LOBBY, LODGE} :
           (EmptyRoom(R) /\ nextSweep <= CleanupEnd) ~> ~EmptyRoom(R)

\* The first sweep has just deleted the room that a left session's own chat
\* had emptied; the session's socket is still closing.
C22_Witness ==
    /\ last.op = "sweep"
    /\ now = StartTime + CLEANUP_INTERVAL_MS
    /\ nextSweep = now + CLEANUP_INTERVAL_MS
    /\ rooms = EmptyMap
    /\ \E c \in LiveConns : sock[c] = "CLOSING" /\ ~Registered(c)

\* C23 (No dangling members): between handlers every id in a room's member
\* set is a key of the Registry; and once the close handler of a session has
\* run, the session's id is in no room's member set.
C23_NoDanglingMembers ==
    /\ \A R \in DOMAIN rooms : rooms[R] \subseteq DOMAIN clients
    /\ last.op = "close" => \A R \in DOMAIN rooms : sid[last.c] \notin rooms[R]

\* C24 (Roster contents): the roster sent for a join lists exactly the ids
\* that are in the joined room's member set and in the Registry when it is
\* built, that is once the joiner's id has been added to the set and before
\* the playerJoined broadcast; the joiner's own id is among them.  One roster
\* is sent, to the joiner alone, when its socket is open, and none otherwise.
C24_RosterContents ==
    \A B \in Conns, m \in JoinMsgs :
        (Receiving(B) /\ Registered(B)) =>
            LET id == sid[B]
                res == joinHandler(clients, rooms, sock, sendFails, B, id, m, now)
                R == res.cl[id].room[2]
                rosters == {k \in 1 .. Len(res.out) : res.out[k].type = "players"}
            IN  /\ Cardinality(rosters) = (IF sock[B] = "OPEN" THEN 1 ELSE 0)
                /\ \A k \in rosters :
                      /\ res.out[k].to = {B}
                      /\ res.out[k].ids = (Members(rooms, R) \cup {id}) \cap DOMAIN clients
                      /\ id \in res.out[k].ids

\* A join's roster listed the joiner and a member whose socket was no longer
\* open, which the playerJoined broadcast of the same join then removed from
\* the Registry.
C24_Witness ==
    /\ last.op = "join"
    /\ Len(out) = 3
    /\ out[1].type = "players"
    /\ sid[last.c] \in out[1].ids
    /\ \E i \in out[1].ids : i \notin DOMAIN clients

====
